---- MODULE Spec2Model ----
(***************************************************************************)
(* TreeComponent of pyjira (src/pyjira/container.py) as driven by the      *)
(* dashboard of src/jira_cli.py: the forest `values`, the index            *)
(* `_selected_index`, the key and mouse handlers, the traversal of the     *)
(* visible elements and the rendering into text fragments.                 *)
(***************************************************************************)
EXTENDS Integers, Sequences, FiniteSets, TLC

VARIABLES
    values,          \* TreeComponent.values: the forest of TreeElement
    selected_index,  \* TreeComponent._selected_index
    render_info,     \* window.render_info: None, or the displayed lines of the last render
    fragment_rows,   \* rows of the fragments the control kept from the last render
    lastOp,          \* the last handler that ran: its name, argument, result, and whether it raised
    prev_index,      \* _selected_index before the last handler ran
    enter_streak,    \* number of consecutive _handle_enter calls from the key binding (capped at 2)
    enter_origin,    \* `values` before the first _handle_enter of the current streak
    loads,           \* the tasks load_tree_elements created, in dispatch order: status and the calls each made
    last_arrival,    \* the load whose task returned data last, with that data; None before any
    details,         \* the show_issue_details coroutines started, in key-press order: status and issue
    body             \* focus_window.body: the issue whose details the pane shows, None for the empty Label

asyncVars == <<loads, last_arrival, details, body>>

vars == <<values, selected_index, render_info, fragment_rows, lastOp, prev_index,
          enter_streak, enter_origin, loads, last_arrival, details, body>>

\* Largest number of issues (sub-tasks included) one JQL response holds.
MaxNodes == 3
\* Largest height of the window the tree is drawn in.
MaxHeight == 2

\* Python's None.
None == [none |-> TRUE]

Min(a, b) == IF a <= b THEN a ELSE b
Max(a, b) == IF a >= b THEN a ELSE b

\* @dataclass TreeElement: value, children, expanded.
TreeElement(v, c, e) == [value |-> v, children |-> c, expanded |-> e]

(***************************************************************************)
(* The issues of a JQL response with n issues in all, as the list placed   *)
(* at positions i, i+1, .. under the issue whose key is p.  An issue is    *)
(* identified by its key, here its position path.                          *)
(***************************************************************************)
RECURSIVE RawIssues(_, _, _)
RawIssues(n, p, i) ==
    IF n = 0 THEN {<<>>}
    ELSE UNION { { <<[id |-> Append(p, i), subtasks |-> s]>> \o rest :
                     s \in RawIssues(k - 1, Append(p, i), 1),
                     rest \in RawIssues(n - k, p, i + 1) } : k \in 1..n }

\* _transform_to_view_data: one collapsed TreeElement per issue, recursively over the sub-tasks.
RECURSIVE TransformToViewData(_)
TransformToViewData(raw_data) ==
    [k \in 1..Len(raw_data) |->
        TreeElement(raw_data[k].id, TransformToViewData(raw_data[k].subtasks), FALSE)]

\* The response of the worked example: issue A with sub-tasks A1 and A2, then issue B.
ScenarioIssues ==
    << [id |-> <<1>>, subtasks |-> << [id |-> <<1, 1>>, subtasks |-> <<>>],
                                      [id |-> <<1, 2>>, subtasks |-> <<>>] >>],
       [id |-> <<2>>, subtasks |-> <<>>] >>

\* What _load_data can return: the view data of every response of at most MaxNodes
\* issues, and of the worked example.
LoadData ==
    { TransformToViewData(raw) :
        raw \in UNION { RawIssues(n, <<>>, 1) : n \in 0..MaxNodes } \cup {ScenarioIssues} }

\* The traversal descending into collapsed elements too.
RECURSIVE TraverseAll(_, _)
TraverseAll(elements, level) ==
    IF elements = <<>> THEN <<>>
    ELSE <<<<level, Head(elements)>>>>
         \o TraverseAll(Head(elements).children, level + 1)
         \o TraverseAll(Tail(elements), level)

\* The traversal yielding an element after its visible children.
RECURSIVE TraversePostOrder(_, _)
TraversePostOrder(elements, level) ==
    IF elements = <<>> THEN <<>>
    ELSE LET e == Head(elements) IN
         (IF e.expanded THEN TraversePostOrder(e.children, level + 1) ELSE <<>>)
         \o <<<<level, e>>>>
         \o TraversePostOrder(Tail(elements), level)

\* _traverse_visible: pre-order, the children only of an expanded element.
RECURSIVE TraverseVisible(_, _)
TraverseVisible(elements, level) ==
    IF elements = <<>> THEN <<>>
    ELSE LET e == Head(elements) IN
         <<<<level, e>>>>
         \o (IF e.expanded THEN TraverseVisible(e.children, level + 1) ELSE <<>>)
         \o TraverseVisible(Tail(elements), level)

\* _number_of_visible_elements
NumberOfVisibleElements(vals) == Len(TraverseVisible(vals, 0))

\* _find_expanded_by_index: the i-th element of the traversal, None when the loop ends without a match.
FindExpandedByIndex(vals, i) ==
    LET visible == TraverseVisible(vals, 0) IN
    IF i >= 0 /\ i < Len(visible) THEN visible[i + 1][2] ELSE None

\* get_selected_element
GetSelectedElement(vals, idx) == FindExpandedByIndex(vals, idx)

\* A toggle that also collapses every descendant of the element it collapses.
RECURSIVE CollapseAll(_)
CollapseAll(elements) ==
    [k \in 1..Len(elements) |->
        [elements[k] EXCEPT !.expanded = FALSE, !.children = CollapseAll(@)]]

RECURSIVE FlipExpandedDeep(_, _)
FlipExpandedDeep(elements, id) ==
    [k \in 1..Len(elements) |->
        IF elements[k].value = id
        THEN IF elements[k].expanded
             THEN [elements[k] EXCEPT !.expanded = FALSE, !.children = CollapseAll(@)]
             ELSE [elements[k] EXCEPT !.expanded = TRUE]
        ELSE [elements[k] EXCEPT !.children = FlipExpandedDeep(@, id)]]

\* element.expanded = not element.expanded, on the one object `id` names inside the forest.
RECURSIVE FlipExpanded(_, _)
FlipExpanded(elements, id) ==
    [k \in 1..Len(elements) |->
        IF elements[k].value = id
        THEN [elements[k] EXCEPT !.expanded = ~@]
        ELSE [elements[k] EXCEPT !.children = FlipExpanded(@, id)]]

\* _handle_enter that sets the flag instead of negating it.
RECURSIVE SetExpanded(_, _)
SetExpanded(elements, id) ==
    [k \in 1..Len(elements) |->
        IF elements[k].value = id
        THEN [elements[k] EXCEPT !.expanded = TRUE]
        ELSE [elements[k] EXCEPT !.children = SetExpanded(@, id)]]

HandleEnterExpandOnly(vals, idx) ==
    LET visible == TraverseVisible(vals, 0) IN
    IF idx >= 0 /\ idx < Len(visible)
    THEN [values |-> SetExpanded(vals, visible[idx + 1][2].value), raised |-> FALSE]
    ELSE [values |-> vals, raised |-> TRUE]

\* _handle_enter that indexes the roots instead of the visible sequence.
HandleEnterByRootIndex(vals, idx) ==
    IF idx >= 0 /\ idx < Len(vals)
    THEN [values |-> [vals EXCEPT ![idx + 1].expanded = ~@], raised |-> FALSE]
    ELSE [values |-> vals, raised |-> TRUE]

\* _handle_enter: the new forest, or the forest unchanged with raised = TRUE when
\* the element found is None (AttributeError on None.expanded).
HandleEnter(vals, idx) ==
    LET element == FindExpandedByIndex(vals, idx) IN
    IF element = None
    THEN [values |-> vals, raised |-> TRUE]
    ELSE [values |-> FlipExpanded(vals, element.value), raised |-> FALSE]

\* StyledTreeComponent.open_character / close_character / default_style
OpenCharacter == "["
CloseCharacter == "]"
DefaultStyle == "class:checkbox"

\* JiraSummaryDrawable.render: the fragments of summary_render for the issue.
RenderValue(e) ==
    << <<"class:issue_id", ToString(e.value)>>, <<"class:issue.status", " status">> >>
    \o (IF e.children # <<>> THEN << <<"class:issue.subtasks", "subtasks">> >> ELSE <<>>)
    \o << <<"class:issue", " ">>, <<"class:issue", "summary">> >>

\* A row whose marker follows the expanded flag alone.
RowFragmentsByFlag(level, element, selected) ==
    [i \in 1..level |-> <<"", "   ">>]
    \o << <<"", "[">> >>
    \o (IF selected THEN << <<"[SetCursorPosition]", "">> >> ELSE <<>>)
    \o << <<"", IF element.expanded THEN "-"
                ELSE (IF element.children # <<>> THEN "+" ELSE " ")>> >>
    \o << <<"", "]">>, <<"class:checkbox", " ">> >>
    \o << <<"class:issue_id", ToString(element.value)>>, <<"", "\n">> >>

\* A row with the markers of expanded and collapsed exchanged.
RowFragmentsSwapped(level, element, selected) ==
    [i \in 1..level |-> <<"", "   ">>]
    \o << <<"", "[">> >>
    \o (IF selected THEN << <<"[SetCursorPosition]", "">> >> ELSE <<>>)
    \o << <<"", IF element.children # <<>>
                THEN (IF element.expanded THEN "+" ELSE "-")
                ELSE " ">> >>
    \o << <<"", "]">>, <<"class:checkbox", " ">> >>
    \o << <<"class:issue_id", ToString(element.value)>>, <<"", "\n">> >>

\* The fragments of one row of _get_text_fragments, its closing newline included.
RowFragments(level, element, selected) ==
    [i \in 1..level |-> <<"", "   ">>]
    \o << <<"", OpenCharacter>> >>
    \o (IF selected THEN << <<"[SetCursorPosition]", "">> >> ELSE <<>>)
    \o << <<"", IF element.children # <<>>
                THEN (IF element.expanded THEN "-" ELSE "+")
                ELSE " ">> >>
    \o << <<"", CloseCharacter>>, <<DefaultStyle, " ">> >>
    \o RenderValue(element)
    \o << <<"", "\n">> >>

RECURSIVE RowsFrom(_, _, _)
RowsFrom(visible, current_index, idx) ==
    IF current_index >= Len(visible) THEN <<>>
    ELSE RowFragments(visible[current_index + 1][1], visible[current_index + 1][2],
                      current_index = idx)
         \o RowsFrom(visible, current_index + 1, idx)

\* _get_text_fragments without the final pop.
GetTextFragmentsNoPop(vals, idx) ==
    LET result == RowsFrom(TraverseVisible(vals, 0), 0, idx)
    IN  [i \in 1..Len(result) |-> <<result[i][1], result[i][2], "mouse_handler">>]

\* _get_text_fragments: every row, a mouse handler on each fragment, the last newline popped.
GetTextFragments(vals, idx) ==
    LET result == RowsFrom(TraverseVisible(vals, 0), 0, idx)
        withHandler == [i \in 1..Len(result) |-> <<result[i][1], result[i][2], "mouse_handler">>]
    IN  IF Len(withHandler) > 0 THEN SubSeq(withHandler, 1, Len(withHandler) - 1) ELSE withHandler

\* Rows the control finds in a fragment list: one more than its newlines, none when it is empty.
LineCount(fragments) ==
    IF fragments = <<>> THEN 0
    ELSE 1 + Cardinality({i \in 1..Len(fragments) : fragments[i][2] = "\n"})

----
\* The dashboard builds StyledTreeComponent(values=[]); __init__ calls set_values.
Init ==
    /\ values = <<>>
    /\ selected_index = 0
    /\ render_info = None
    /\ fragment_rows = 0
    /\ lastOp = [name |-> "init", arg |-> 0, result |-> None, raised |-> FALSE]
    /\ prev_index = 0
    /\ enter_streak = 0
    /\ enter_origin = <<>>
    /\ loads = <<>>
    /\ last_arrival = None
    /\ details = <<>>
    /\ body = None

Op(name, arg, result, raised) ==
    /\ lastOp' = [name |-> name, arg |-> arg, result |-> result, raised |-> raised]
    /\ prev_index' = selected_index

NoStreak ==
    /\ enter_streak' = 0
    /\ enter_origin' = <<>>

SetValuesKeepIndex(new_values, idx) == [values |-> new_values, selected_index |-> idx]

SetValuesClampIndex(new_values, idx) ==
    [values |-> new_values,
     selected_index |-> Max(0, Min(idx, NumberOfVisibleElements(new_values) - 1))]

\* set_values
SetValuesTo(new_values, idx) == [values |-> new_values, selected_index |-> 0]

SetValues ==
    \E data \in LoadData :
        /\ values' = SetValuesTo(data, selected_index).values
        /\ selected_index' = SetValuesTo(data, selected_index).selected_index
        /\ Op("set_values", data, None, FALSE)
        /\ NoStreak
        /\ UNCHANGED <<render_info, fragment_rows>>
        /\ UNCHANGED asyncVars

\* _up
UpIndex(vals, idx) == Max(0, idx - 1)

Up ==
    /\ selected_index' = UpIndex(values, selected_index)
    /\ Op("up", 0, None, FALSE)
    /\ NoStreak
    /\ UNCHANGED <<values, render_info, fragment_rows>>
    /\ UNCHANGED asyncVars

\* _down
DownIndex(vals, idx) == Min(NumberOfVisibleElements(vals) - 1, idx + 1)

Down ==
    /\ selected_index' = DownIndex(values, selected_index)
    /\ Op("down", 0, None, FALSE)
    /\ NoStreak
    /\ UNCHANGED <<values, render_info, fragment_rows>>
    /\ UNCHANGED asyncVars

\* _pageup
PageUpIndex(vals, idx, info) ==
    IF info # None THEN Max(0, idx - info.displayed_lines) ELSE idx

PageUp ==
    /\ selected_index' = PageUpIndex(values, selected_index, render_info)
    /\ Op("pageup", 0, None, FALSE)
    /\ NoStreak
    /\ UNCHANGED <<values, render_info, fragment_rows>>
    /\ UNCHANGED asyncVars

\* _pagedown
PageDownIndex(vals, idx, info) ==
    IF info # None
    THEN Min(NumberOfVisibleElements(vals) - 1, idx + info.displayed_lines)
    ELSE idx

PageDown ==
    /\ selected_index' = PageDownIndex(values, selected_index, render_info)
    /\ Op("pagedown", 0, None, FALSE)
    /\ NoStreak
    /\ UNCHANGED <<values, render_info, fragment_rows>>
    /\ UNCHANGED asyncVars

\* _click (enter, space, right): _handle_enter on the selected index
Click ==
    LET r == HandleEnter(values, selected_index) IN
    /\ values' = r.values
    /\ Op("enter", 0, None, r.raised)
    /\ enter_streak' = IF enter_streak = 1 THEN 2 ELSE 1
    /\ enter_origin' = IF enter_streak = 1 THEN enter_origin ELSE values
    /\ UNCHANGED <<selected_index, render_info, fragment_rows>>
    /\ UNCHANGED asyncVars

\* mouse_handler: on MOUSE_UP the index becomes the row of the event, then _handle_enter.
MouseIndex(vals, idx, y) == y

MouseHandler ==
    \E type \in {"MOUSE_UP", "MOUSE_DOWN"}, y \in 0..(fragment_rows - 1) :
        IF type = "MOUSE_UP"
        THEN LET i == MouseIndex(values, selected_index, y)
                 r == HandleEnter(values, i) IN
             /\ selected_index' = i
             /\ values' = r.values
             /\ Op("mouse_up", y, None, r.raised)
             /\ NoStreak
             /\ UNCHANGED <<render_info, fragment_rows>>
             /\ UNCHANGED asyncVars
        ELSE /\ Op("mouse_down", y, None, FALSE)
             /\ NoStreak
             /\ UNCHANGED <<values, selected_index, render_info, fragment_rows>>
             /\ UNCHANGED asyncVars

\* show_issue_details reads tree.get_selected_element()
SelectedElement ==
    /\ Op("get_selected_element", 0, GetSelectedElement(values, selected_index), FALSE)
    /\ NoStreak
    /\ UNCHANGED <<values, selected_index, render_info, fragment_rows>>
    /\ UNCHANGED asyncVars

(***************************************************************************)
(* A redraw: the control calls _get_text_fragments and keeps the fragments *)
(* for mouse dispatch; the window of height h records the lines it shows   *)
(* (an empty fragment list is one empty line).                             *)
(***************************************************************************)
Render ==
    \E h \in 1..MaxHeight :
        LET rows == LineCount(GetTextFragments(values, selected_index)) IN
        /\ fragment_rows' = rows
        /\ render_info' = [displayed_lines |-> Min(h, Max(1, rows))]
        /\ UNCHANGED <<values, selected_index, lastOp, prev_index, enter_streak, enter_origin>>
        /\ UNCHANGED asyncVars

Next ==
    \/ SetValues
    \/ Up
    \/ Down
    \/ PageUp
    \/ PageDown
    \/ Click
    \/ MouseHandler
    \/ SelectedElement
    \/ Render

Spec == Init /\ [][Next]_vars

----
(***************************************************************************)
(* The dashboard's loader: load_tree_elements creates a task per accepted   *)
(* JQL (and one before the application runs); each task awaits _load_data,  *)
(* then calls tree.set_values and get_app().invalidate() without            *)
(* suspending in between.                                                  *)
(***************************************************************************)

\* Largest number of load tasks created in one run, the first one included.
MaxLoads == 2
\* Largest number of issues in a response to one of these loads.
MaxLoadNodes == 2

\* What _load_data returns to a load task.
LoadResponses ==
    { TransformToViewData(raw) : raw \in UNION { RawIssues(n, <<>>, 1) : n \in 0..MaxLoadNodes } }

Calls(task, name) == \E i \in 1..Len(task.calls) : task.calls[i] = name

\* A load that installs an empty forest when _load_data raises.
LoadClearsOnError(l, dispatched, raised, data, vals, idx) ==
    IF raised
    THEN [values |-> <<>>, selected_index |-> 0, status |-> "failed",
          calls |-> <<"set_values", "invalidate">>]
    ELSE [values |-> data, selected_index |-> 0, status |-> "done",
          calls |-> <<"set_values", "invalidate">>]

\* A load that drops its data when a newer load has been dispatched.
LoadLatestOnly(l, dispatched, raised, data, vals, idx) ==
    IF raised \/ l < dispatched
    THEN [values |-> vals, selected_index |-> idx,
          status |-> IF raised THEN "failed" ELSE "done", calls |-> <<>>]
    ELSE [values |-> data, selected_index |-> 0, status |-> "done",
          calls |-> <<"set_values", "invalidate">>]

\* A load that requests the redraw before and after installing the data.
LoadInvalidatesTwice(l, dispatched, raised, data, vals, idx) ==
    IF raised
    THEN [values |-> vals, selected_index |-> idx, status |-> "failed", calls |-> <<>>]
    ELSE [values |-> data, selected_index |-> 0, status |-> "done",
          calls |-> <<"invalidate", "set_values", "invalidate">>]

\* load(): the task l of `dispatched` tasks, from the return of _load_data (raised, or
\* data) to its end: set_values(data), then invalidate(); nothing when _load_data raised.
Load(l, dispatched, raised, data, vals, idx) ==
    IF raised
    THEN [values |-> vals, selected_index |-> idx, status |-> "failed", calls |-> <<>>]
    ELSE LET s == SetValuesTo(data, idx) IN
         [values |-> s.values, selected_index |-> s.selected_index, status |-> "done",
          calls |-> <<"set_values", "invalidate">>]

\* load_tree_elements(config, tree, config.board.filter.jql) runs before application.run().
InitLoad ==
    /\ values = <<>>
    /\ selected_index = 0
    /\ render_info = None
    /\ fragment_rows = 0
    /\ lastOp = [name |-> "init", arg |-> 0, result |-> None, raised |-> FALSE]
    /\ prev_index = 0
    /\ enter_streak = 0
    /\ enter_origin = <<>>
    /\ loads = << [status |-> "pending", calls |-> <<>>] >>
    /\ last_arrival = None
    /\ details = <<>>
    /\ body = None

\* accept_text: load_tree_elements creates one more task; nothing is cancelled or awaited.
AcceptText ==
    /\ Len(loads) < MaxLoads
    /\ loads' = Append(loads, [status |-> "pending", calls |-> <<>>])
    /\ UNCHANGED <<values, selected_index, render_info, fragment_rows, lastOp, prev_index,
                   enter_streak, enter_origin, last_arrival, details, body>>

\* _load_data returns data to the task l, which runs to its end.
LoadCompletes ==
    \E l \in 1..Len(loads), data \in LoadResponses :
        /\ loads[l].status = "pending"
        /\ LET r == Load(l, Len(loads), FALSE, data, values, selected_index) IN
           /\ values' = r.values
           /\ selected_index' = r.selected_index
           /\ loads' = [loads EXCEPT ![l] = [status |-> r.status, calls |-> r.calls]]
           /\ last_arrival' = [load |-> l, data |-> data]
           /\ Op("load", l, None, FALSE)
           /\ NoStreak
        /\ UNCHANGED <<render_info, fragment_rows, details, body>>

\* _load_data raises in the task l: the exception ends the task.
LoadFails ==
    \E l \in 1..Len(loads) :
        /\ loads[l].status = "pending"
        /\ LET r == Load(l, Len(loads), TRUE, <<>>, values, selected_index) IN
           /\ values' = r.values
           /\ selected_index' = r.selected_index
           /\ loads' = [loads EXCEPT ![l] = [status |-> r.status, calls |-> r.calls]]
           /\ Op("load", l, None, TRUE)
        /\ UNCHANGED <<render_info, fragment_rows, enter_streak, enter_origin,
                       last_arrival, details, body>>

NextLoad ==
    \/ AcceptText
    \/ LoadCompletes
    \/ LoadFails
    \/ Up
    \/ Down
    \/ Click
    \/ MouseHandler
    \/ Render

LoadSpec == InitLoad /\ [][NextLoad]_vars

----
(***************************************************************************)
(* The 'o' binding merged into the tree's bindings: show_issue_details     *)
(* reads the selected element, awaits _load_issue_details for its issue    *)
(* and then assigns the result to focus_window.body.                       *)
(***************************************************************************)

\* Largest number of 'o' presses that start a fetch in one run.
MaxPresses == 2

\* show_issue_details up to its await: the issue of the selected element, or raised
\* (AttributeError on None.value) when there is no selected element.
ShowIssueDetailsStart(vals, idx) ==
    LET element == GetSelectedElement(vals, idx) IN
    IF element = None
    THEN [raised |-> TRUE, issue |-> None]
    ELSE [raised |-> FALSE, issue |-> element.value]

\* focus_window.body = await _load_issue_details(id), for the k-th coroutine started.
AssignBody(k, started, current_body) == started[k].issue

ShowIssueDetails ==
    LET r == ShowIssueDetailsStart(values, selected_index) IN
    /\ IF r.raised
       THEN UNCHANGED details
       ELSE /\ Len(details) < MaxPresses
            /\ details' = Append(details, [status |-> "pending", issue |-> r.issue])
    /\ Op("o", 0, None, r.raised)
    /\ NoStreak
    /\ UNCHANGED <<values, selected_index, render_info, fragment_rows, loads, last_arrival, body>>

\* _load_issue_details returns to the k-th coroutine, which assigns the body.
DetailCompletes ==
    \E k \in 1..Len(details) :
        /\ details[k].status = "pending"
        /\ body' = AssignBody(k, details, body)
        /\ details' = [details EXCEPT ![k].status = "done"]
        /\ UNCHANGED <<values, selected_index, render_info, fragment_rows, lastOp, prev_index,
                       enter_streak, enter_origin, loads, last_arrival>>

\* _load_issue_details raises in the k-th coroutine: the body is not assigned.
DetailFails ==
    \E k \in 1..Len(details) :
        /\ details[k].status = "pending"
        /\ details' = [details EXCEPT ![k].status = "failed"]
        /\ UNCHANGED <<values, selected_index, render_info, fragment_rows, lastOp, prev_index,
                       enter_streak, enter_origin, loads, last_arrival, body>>

NextDetail ==
    \/ AcceptText
    \/ LoadCompletes
    \/ Up
    \/ Down
    \/ ShowIssueDetails
    \/ DetailCompletes
    \/ DetailFails

DetailSpec == InitLoad /\ [][NextDetail]_vars

----
\* The visible sequence of the installed forest, and its entries as (depth, node identity).
Visible == TraverseVisible(values, 0)
VisibleCount == NumberOfVisibleElements(values)
Ids(visible) == [i \in 1..Len(visible) |-> <<visible[i][1], visible[i][2].value>>]
Clamp(x, lo, hi) == Max(lo, Min(hi, x))

\* A step of the handler `name` (a redraw leaves lastOp alone and changes only what it rendered).
Step(name) == lastOp'.name = name /\ UNCHANGED <<render_info, fragment_rows>>

\* C1: in every reachable state 0 <= selectedIndex < max(1, numberOfVisibleNodes),
\* the empty forest included.
C1_SelectedIndexInRange ==
    0 <= selected_index /\ selected_index < Max(1, VisibleCount)

\* C2: on an empty visible sequence no index operation raises, and
\* getSelectedElement returns the "no selection" result.
C2_EmptyNeverRaises ==
    (VisibleCount = 0
       /\ lastOp.name \in {"up", "down", "pageup", "pagedown", "enter", "get_selected_element"})
    => /\ ~lastOp.raised
       /\ lastOp.name = "get_selected_element" => lastOp.result = None

\* C3: a MOUSE_UP on row r sets selectedIndex to r clamped to the visible range and
\* toggles the node at that index in the same step; for r inside the visible rows
\* that node is the r-th entry of the visible sequence before the click.
C3_ClickClampsAndToggles ==
    [][Step("mouse_up") =>
        LET i == Clamp(lastOp'.arg, 0, VisibleCount - 1) IN
        /\ selected_index' = i
        /\ ~lastOp'.raised
        /\ VisibleCount > 0 => values' = FlipExpanded(values, Visible[i + 1][2].value)]_vars

\* C4: moveUp / moveDown set selectedIndex to clamp(selectedIndex -/+ 1, 0,
\* numberOfVisibleNodes - 1): no wraparound, a no-op at the ends, one step otherwise.
C4_MoveClamps ==
    /\ lastOp.name = "up" => selected_index = Clamp(prev_index - 1, 0, VisibleCount - 1)
    /\ lastOp.name = "down" => selected_index = Clamp(prev_index + 1, 0, VisibleCount - 1)

\* C5: pageUp / pageDown clamp to [0, numberOfVisibleNodes - 1] with the number of
\* displayed rows as the step, and change nothing while the window has no render info.
C5_PageClamps ==
    [][(Step("pageup") \/ Step("pagedown")) =>
        /\ values' = values
        /\ selected_index' =
             IF render_info = None THEN selected_index
             ELSE Clamp(selected_index + (IF lastOp'.name = "pageup" THEN -1 ELSE 1)
                                          * render_info.displayed_lines,
                        0, VisibleCount - 1)]_vars

\* C6: setValues(newRoots), whatever the old forest and index, leaves roots = newRoots
\* and selectedIndex = 0.
C6_SetValuesResets ==
    lastOp.name = "set_values" => (values = lastOp.arg /\ selected_index = 0)

\* set_values ran on a forest whose selection stood at row 3.
C6_Witness ==
    lastOp.name = "set_values" /\ prev_index = 3 /\ values # <<>>

\* Positions in a forest: the path of child indexes leading to each node.
RECURSIVE Positions(_, _)
Positions(elements, prefix) ==
    UNION { {Append(prefix, k)} \cup Positions(elements[k].children, Append(prefix, k)) :
            k \in 1..Len(elements) }

RECURSIVE NodeAt(_, _)
NodeAt(elements, p) ==
    IF Len(p) = 1 THEN elements[p[1]] ELSE NodeAt(elements[p[1]].children, Tail(p))

IsProperPrefix(p, q) == Len(p) < Len(q) /\ SubSeq(q, 1, Len(p)) = p

\* Pre-order of positions: an ancestor before its descendants, an earlier sibling's subtree first.
Before(p, q) ==
    \/ IsProperPrefix(p, q)
    \/ \E j \in 1..Min(Len(p), Len(q)) : SubSeq(p, 1, j - 1) = SubSeq(q, 1, j - 1) /\ p[j] < q[j]

\* The positions of a forest all of whose proper ancestors are expanded.
Shown(vals) ==
    { p \in Positions(vals, <<>>) :
        \A j \in 1..(Len(p) - 1) : NodeAt(vals, SubSeq(p, 1, j)).expanded }

ScenarioForest == TransformToViewData(ScenarioIssues)
ScenarioExpandedA == [ScenarioForest EXCEPT ![1].expanded = TRUE]

\* C7: the traversal yields (depth, node) in depth-first pre-order, depth 0 at the roots
\* and one more per level, visiting a node's children exactly when it is expanded;
\* [A(collapsed; A1, A2), B] gives [(0,A),(0,B)] and, A expanded, [(0,A),(1,A1),(1,A2),(0,B)].
C7_TraversalPreOrder ==
    /\ Len(Visible) = Cardinality(Shown(values))
    /\ \A i \in 1..Len(Visible) :
          /\ Visible[i][2].value \in Shown(values)
          /\ Visible[i][2] = NodeAt(values, Visible[i][2].value)
          /\ Visible[i][1] = Len(Visible[i][2].value) - 1
    /\ \A i, j \in 1..Len(Visible) : i < j => Before(Visible[i][2].value, Visible[j][2].value)
    /\ values = ScenarioForest => Ids(Visible) = << <<0, <<1>>>>, <<0, <<2>>>> >>
    /\ values = ScenarioExpandedA =>
          Ids(Visible) = << <<0, <<1>>>>, <<1, <<1, 1>>>>, <<1, <<1, 2>>>>, <<0, <<2>>>> >>

\* A was just toggled open at index 0 of the worked example.
C7_Witness ==
    values = ScenarioExpandedA /\ lastOp.name = "enter" /\ selected_index = 0 /\ prev_index = 0

\* Number of visible descendants of the node `id` in the forest vals.
VisibleDescendants(vals, id) ==
    Cardinality({ p \in Shown(vals) : IsProperPrefix(id, p) })

Without(seq, k, d) == SubSeq(seq, 1, k) \o SubSeq(seq, k + d + 1, Len(seq))

\* C8: collapsing an expanded node removes exactly its then-visible descendants from the
\* visible sequence and leaves the other entries in place; expanding inserts its visible
\* descendants directly after it, and a collapse followed by an expand restores the
\* sequence as it was (nested expanded flags kept).
C8_CollapseExpand ==
    [][((Step("enter") \/ Step("mouse_up")) /\ ~lastOp'.raised) =>
        LET k == selected_index' + 1
            node == TraverseVisible(values, 0)[k][2]
            pre == Ids(TraverseVisible(values, 0))
            post == Ids(TraverseVisible(values', 0))
        IN  /\ node.expanded =>
                 post = Without(pre, k, VisibleDescendants(values, node.value))
            /\ ~node.expanded =>
                 /\ pre = Without(post, k, VisibleDescendants(values', node.value))
                 /\ \A j \in (k + 1)..(k + VisibleDescendants(values', node.value)) :
                        IsProperPrefix(node.value, post[j][2])
            /\ (enter_streak' = 2 /\ ~node.expanded) =>
                 post = Ids(TraverseVisible(enter_origin, 0))]_vars

\* A node with an expanded child was collapsed and expanded again.
C8_Witness ==
    /\ lastOp.name = "enter" /\ ~lastOp.raised /\ enter_streak = 2
    /\ LET node == FindExpandedByIndex(values, selected_index) IN
          /\ node.expanded
          /\ \E c \in 1..Len(node.children) :
                node.children[c].expanded /\ node.children[c].children # <<>>

\* C9: two consecutive toggleSelected calls return every expanded flag, and with it the
\* visible sequence, to what it was before the first.
C9_ToggleTwice ==
    enter_streak = 2 =>
        /\ values = enter_origin
        /\ Ids(Visible) = Ids(TraverseVisible(enter_origin, 0))

\* Two toggles in a row ran on a collapsed node that has children, in a forest of several rows.
C9_Witness ==
    /\ enter_streak = 2 /\ ~lastOp.raised /\ VisibleCount > 1
    /\ LET node == FindExpandedByIndex(values, selected_index) IN
          ~node.expanded /\ node.children # <<>>

\* The members of a set of indexes, in increasing order.
Ascending(S) ==
    [i \in 1..Cardinality(S) |-> CHOOSE x \in S : Cardinality({y \in S : y < x}) = i - 1]

IsNewline(fragment) == fragment[2] = "\n"
IsIssueId(fragment) == fragment[1] = "class:issue_id"

\* C10: the rendered stream has one row per traversal entry, in traversal order, a line
\* break between rows and none after the last, and is empty when roots is empty.
C10_RenderedRows ==
    \A stream \in {GetTextFragments(values, selected_index)}, visible \in {Visible} :
    \A breaks \in {Ascending({i \in 1..Len(stream) : IsNewline(stream[i])})} :
    \A rows \in {Ascending({i \in 1..Len(stream) : IsIssueId(stream[i])})} :
        /\ values = <<>> => stream = <<>>
        /\ Len(rows) = Len(visible)
        /\ \A i \in 1..Len(rows) : stream[rows[i]][2] = ToString(visible[i][2].value)
        /\ Len(breaks) = Max(0, Len(visible) - 1)
        /\ \A i \in 1..Len(breaks) : rows[i] < breaks[i] /\ breaks[i] < rows[i + 1]
        /\ stream # <<>> => ~IsNewline(stream[Len(stream)])

\* The last redraw drew the installed forest, which has several visible rows.
C10_Witness ==
    fragment_rows = VisibleCount /\ VisibleCount >= 3 /\ render_info # None

\* Steps of the load tasks, read off `loads`.
Dispatches == Len(loads') = Len(loads) + 1
Returns(l, status) ==
    /\ l \in DOMAIN loads /\ Len(loads') = Len(loads)
    /\ loads[l].status = "pending" /\ loads'[l].status = status
SomeReturns(status) == \E l \in DOMAIN loads : Returns(l, status)
CountCalls(task, name) == Cardinality({i \in 1..Len(task.calls) : task.calls[i] = name})

\* C11: a load whose fetch raises leaves roots, expanded flags and selectedIndex as they
\* were (only the user's handlers and successful loads ever change them), and a failed
\* load never calls setValues.
C11_FailedLoadKeepsState ==
    [][/\ SomeReturns("failed") => (values' = values /\ selected_index' = selected_index)
       /\ \A l \in DOMAIN loads' :
              loads'[l].status = "failed" => ~Calls(loads'[l], "set_values")
       /\ (values' # values \/ selected_index' # selected_index)
              => (loads' = loads \/ SomeReturns("done"))]_vars

\* A load failed while a non-empty forest with a moved selection was installed.
C11_Witness ==
    /\ lastOp.name = "load" /\ lastOp.raised
    /\ values # <<>> /\ selected_index > 0

\* C12: accepting a JQL while loads are outstanding cancels and rejects nothing; each
\* successful load's setValues is applied when that load returns, so once all have
\* returned roots is the forest of the load that returned last.
C12_ArrivalOrder ==
    [][/\ Dispatches =>
              /\ SubSeq(loads', 1, Len(loads)) = loads
              /\ loads'[Len(loads')].status = "pending"
       /\ \A l \in DOMAIN loads :
              Returns(l, "done") =>
                  /\ last_arrival'.load = l
                  /\ values' = last_arrival'.data
                  /\ CountCalls(loads'[l], "set_values") = 1
       /\ ((\A l \in DOMAIN loads' : loads'[l].status # "pending") /\ last_arrival' # None)
              => CollapseAll(values') = last_arrival'.data]_vars

\* Both loads returned data, the one dispatched first returning last, and its forest is installed.
C12_Witness ==
    /\ Len(loads) = 2 /\ loads[1].status = "done" /\ loads[2].status = "done"
    /\ last_arrival # None /\ last_arrival.load = 1
    /\ values # <<>> /\ lastOp.name = "load"

\* C13: dispatching a load leaves the installed forest and index alone, and a returning
\* load replaces roots and resets selectedIndex in one step: whenever the roots are
\* replaced the index is 0 in the same state.
C13_AtomicReplace ==
    [][/\ Dispatches => (values' = values /\ selected_index' = selected_index)
       /\ \A l \in DOMAIN loads :
              Returns(l, "done") => (values' = last_arrival'.data /\ selected_index' = 0)
       /\ (loads' # loads /\ values' # values) => selected_index' = 0]_vars

\* A toggle ran on the previous forest while a load was outstanding.
C13_Witness ==
    /\ \E l \in DOMAIN loads : loads[l].status = "pending"
    /\ lastOp.name = "enter" /\ ~lastOp.raised /\ values # <<>>

\* C14: a load that returned data has issued exactly one redraw request, after its
\* setValues; a load that is outstanding or failed has issued none.
C14_OneRedrawPerLoad ==
    \A l \in DOMAIN loads :
        IF loads[l].status = "done"
        THEN /\ CountCalls(loads[l], "invalidate") = 1
             /\ \E i, j \in 1..Len(loads[l].calls) :
                    i < j /\ loads[l].calls[i] = "set_values" /\ loads[l].calls[j] = "invalidate"
        ELSE CountCalls(loads[l], "invalidate") = 0

\* One load failed and another returned data.
C14_Witness ==
    /\ Len(loads) = 2 /\ loads[1].status = "failed" /\ loads[2].status = "done"

\* Every node of `new` is the node of `old` at the same position, with the same value and
\* number of children, and the same expanded flag except for the node `id`, whose flag is negated.
ExactlyFlipped(old, new, id) ==
    /\ Positions(new, <<>>) = Positions(old, <<>>)
    /\ \A p \in Positions(old, <<>>) :
          LET a == NodeAt(old, p)
              b == NodeAt(new, p)
          IN  /\ b.value = a.value
              /\ Len(b.children) = Len(a.children)
              /\ b.expanded = (IF a.value = id THEN ~a.expanded ELSE a.expanded)

RowCount(stream) ==
    IF stream = <<>> THEN 0
    ELSE 1 + Cardinality({i \in 1..Len(stream) : IsNewline(stream[i])})

Row(stream, i) ==
    LET breaks == Ascending({j \in 1..Len(stream) : IsNewline(stream[j])})
        first == IF i = 1 THEN 1 ELSE breaks[i - 1] + 1
        last == IF i <= Len(breaks) THEN breaks[i] - 1 ELSE Len(stream)
    IN  SubSeq(stream, first, last)

\* Where the open character stands in a row, and what the row shows around it.
OpenAt(row) == CHOOSE j \in 1..Len(row) :
                   row[j][2] = "[" /\ \A k \in 1..(j - 1) : row[k][2] # "["
HasCursor(row) == \E j \in 1..Len(row) : row[j][1] = "[SetCursorPosition]"
Indents(row) == OpenAt(row) - 1
GlyphAt(row) == IF row[OpenAt(row) + 1][1] = "[SetCursorPosition]"
                THEN OpenAt(row) + 2 ELSE OpenAt(row) + 1
Glyph(row) == row[GlyphAt(row)][2]

\* C16: toggling a node without children flips its flag and shows nothing: the visible
\* sequence and the blank marker of its row are the same before and after.
C16_LeafToggleInvisible ==
    [][((Step("enter") \/ Step("mouse_up")) /\ ~lastOp'.raised
            /\ Visible[selected_index' + 1][2].children = <<>>) =>
        \A k \in {selected_index' + 1} :
        \A before \in {GetTextFragments(values, selected_index')} :
        \A after \in {GetTextFragments(values', selected_index')} :
        \A rowBefore \in {Row(before, k)}, rowAfter \in {Row(after, k)} :
            /\ TraverseVisible(values', 0)[k][2].expanded = ~Visible[k][2].expanded
            /\ Ids(TraverseVisible(values', 0)) = Ids(Visible)
            /\ Glyph(rowBefore) = " "
            /\ Glyph(rowAfter) = " "]_vars

\* A node without children was toggled and now carries expanded = TRUE.
C16_Witness ==
    /\ lastOp.name = "enter" /\ ~lastOp.raised /\ VisibleCount >= 2
    /\ LET node == FindExpandedByIndex(values, selected_index) IN
          node.children = <<>> /\ node.expanded

\* C17: in the rendering of a non-empty visible sequence exactly one row carries the
\* cursor-position marker, the row at selectedIndex.
C17_OneCursorRow ==
    VisibleCount > 0 =>
        \A stream \in {GetTextFragments(values, selected_index)} :
            {i \in 1..RowCount(stream) : HasCursor(Row(stream, i))} = {selected_index + 1}

\* C18: in every rendered row the marker between the open and close characters is '-' for
\* an expanded node with children, '+' for a collapsed node with children and a blank for a
\* node without children, and exactly depth indent units precede the open character.
C18_MarkerAndIndent ==
    \A stream \in {GetTextFragments(values, selected_index)}, visible \in {Visible} :
    \A i \in 1..Len(visible) :
    \A row \in {Row(stream, i)}, node \in {visible[i][2]} :
        /\ Indents(row) = visible[i][1]
        /\ \A j \in 1..Indents(row) : row[j][2] = "   "
        /\ Glyph(row) = (IF node.children = <<>> THEN " "
                         ELSE IF node.expanded THEN "-" ELSE "+")
        /\ row[GlyphAt(row) + 1][2] = "]"

\* The last redraw drew an expanded node and, one level down, a collapsed node with children.
C18_Witness ==
    /\ fragment_rows = VisibleCount /\ render_info # None
    /\ \E i, j \in 1..VisibleCount :
          /\ Visible[i][2].expanded /\ Visible[i][2].children # <<>>
          /\ ~Visible[j][2].expanded /\ Visible[j][2].children # <<>> /\ Visible[j][1] >= 1

C20_LatestPressShown ==
    (details # <<>> /\ \A k \in 1..Len(details) : details[k].status = "done")
        => body = details[Len(details)].issue

====
